---- MODULE Spec2Model ----
(***************************************************************************)
(* A model of lutris/util/sql.py: the retrying query executor              *)
(* cursor_execute, the scoped connection db_cursor, and the helpers        *)
(* db_insert, db_update, db_delete, db_select, db_query and add_field.     *)
(*                                                                         *)
(* The database engine (sqlite3) is the environment.  It is modelled as    *)
(* one table, "games", with the hidden integer rowid and the declared      *)
(* columns name (NOT NULL) and runner; a statement is a record holding the *)
(* parts the helper formats into the SQL text, and the engine binds the    *)
(* i-th parameter to the i-th placeholder of that text.  Every call of     *)
(* cursor.execute may fail with "database is locked", the transient        *)
(* sqlite3.OperationalError; the other errors are decided by the           *)
(* statement and the database.                                             *)
(***************************************************************************)
EXTENDS Integers, Sequences, FiniteSets, TLC

\* ---------------------------------------------------------------- bounds
\* Largest rowid the table reaches: db_insert is not called beyond it.
MaxRowid == 2
\* Lock failures the engine injects into one call under SpecCrud.
MaxBusy == 1

\* ------------------------------------------------------------- constants
\* Number of attempts to retry failed queries.
DB_RETRIES == 5
\* time.sleep(1) between two attempts.
SleepTime == 1
\* Python's None as a bind value, SQL's NULL as a stored value.
NULL == 0

\* The non-NULL values are 1 and 2; two of them tell a changed value from
\* an unchanged one and a matching row from another.
Values == {NULL, 1, 2}
TableName == "games"
\* The declared columns, in the order of the table's definition.
Schema == <<"name", "runner">>
AddedColumn == "platform"
NoCondition == ""
Star == <<"*">>

\* Exception classes, and the outcomes of one cursor.execute.
OperationalError == "OperationalError"
IntegrityError == "IntegrityError"
ProgrammingError == "ProgrammingError"
NoError == "none"

Range(s) == {s[k] : k \in DOMAIN s}
Max(S) == CHOOSE x \in S : \A y \in S : y <= x
Min(S) == CHOOSE x \in S : \A y \in S : x <= y

\* ------------------------------------------------- helpers: the statements
\* A dict of fields is the sequence of its items in insertion order.
Keys(fields) == [k \in DOMAIN fields |-> fields[k][1]]

FieldValues(fields) == [k \in DOMAIN fields |-> fields[k][2]]

\* _decode_utf8_values: the values unchanged, as a tuple.
DecodeUtf8Values(values_list) == values_list

\* A statement: what the helper formats into the SQL text.  columns are
\* the column names in the text's order; set/values columns each carry one
\* placeholder, and cond, when present, carries the last one.
Statement(verb, table, columns, cond) ==
    [verb |-> verb, table |-> table, columns |-> columns, cond |-> cond]

\* db_insert: "insert into {0}({1}) values ({2})", with one placeholder
\* per field.
InsertQuery(table, fields) == Statement("insert", table, Keys(fields), NoCondition)

InsertParamsSwapped(fields) ==
    LET v == DecodeUtf8Values(FieldValues(fields))
    IN  [k \in DOMAIN v |-> v[Len(v) + 1 - k]]

InsertParams(fields) == DecodeUtf8Values(FieldValues(fields))

\* db_update: "UPDATE {0} SET {1} WHERE {2}", row = (column, value).
UpdateQuery(table, updated_fields, row) ==
    Statement("update", table, Keys(updated_fields), row[1])

UpdateParamsConditionFirst(updated_fields, row) ==
    <<row[2]>> \o DecodeUtf8Values(FieldValues(updated_fields))

UpdateParams(updated_fields, row) ==
    DecodeUtf8Values(FieldValues(updated_fields)) \o <<row[2]>>

\* db_delete: "delete from {0} where {1}=?".
DeleteQueryByRowid(table, field) == Statement("delete", table, <<>>, "rowid")

DeleteQuery(table, field) == Statement("delete", table, <<>>, field)

DeleteParams(value) == <<value>>

\* db_select: the columns joined, or "*" when fields is empty or None;
\* condition is None (here <<>>) or a (column, value) pair.
SelectQuery(table, fields, condition) ==
    Statement("select", table,
              IF fields # <<>> THEN fields ELSE Star,
              IF condition # <<>> THEN condition[1] ELSE NoCondition)

SelectParams(condition) == IF condition # <<>> THEN <<condition[2]>> ELSE <<>>

\* add_field: "ALTER TABLE %s ADD COLUMN %s %s".
AlterQuery(tablename, field) == Statement("alter", tablename, <<field>>, NoCondition)

\* The number of "?" in a statement's text.
Placeholders(q) ==
    (IF q.verb \in {"insert", "update"} THEN Len(q.columns) ELSE 0)
        + (IF q.cond # NoCondition THEN 1 ELSE 0)

\* ------------------------------------------------------------- the engine
\* A database: the rows of the table and whether AddedColumn was added.
\* A row is a record with the fields rowid, name and runner; the added
\* column is never written by the calls modelled, so it is NULL in every
\* row.
RowColumns == {"rowid"} \cup Range(Schema)

Visible(db) == IF db.added THEN Schema \o <<AddedColumn>> ELSE Schema

KnownColumns(db) == {"rowid"} \cup Range(Visible(db))

Cell(r, c) == IF c \in RowColumns THEN r[c] ELSE NULL

\* WHERE c=?: SQL's comparison, which NULL never satisfies.
Matches(r, c, v) == Cell(r, c) # NULL /\ v # NULL /\ Cell(r, c) = v

Selected(db, q, params) ==
    IF q.cond = NoCondition THEN db.rows
    ELSE {r \in db.rows : Matches(r, q.cond, params[Len(params)])}

NextRowid(db) ==
    IF db.rows = {} THEN 1 ELSE Max({r.rowid : r \in db.rows}) + 1

\* The value the statement gives column c: that of the placeholder at c's
\* place in the column list (the last, if c is listed twice).
Bound(q, params, c) ==
    params[Max({k \in DOMAIN q.columns : q.columns[k] = c})]

NewRow(db, q, params) ==
    [c \in RowColumns |->
        IF c = "rowid" THEN NextRowid(db)
        ELSE IF c \in Range(q.columns) THEN Bound(q, params, c)
        ELSE NULL]

Updated(q, params, r) ==
    [c \in RowColumns |->
        IF c \in Range(q.columns) THEN Bound(q, params, c) ELSE r[c]]

\* The rows of a set in rowid order.
RECURSIVE InRowidOrder(_)
InRowidOrder(S) ==
    IF S = {} THEN <<>>
    ELSE LET first == CHOOSE r \in S : \A o \in S : r.rowid <= o.rowid
         IN  <<first>> \o InRowidOrder(S \ {first})

OutputColumns(db, q) == IF q.columns = Star THEN Visible(db) ELSE q.columns

\* A fetched row: the tuple of the output columns' values.
Tuple(db, q, r) ==
    LET cols == OutputColumns(db, q)
    IN  [k \in DOMAIN cols |-> Cell(r, cols[k])]

Fail(db, cls) ==
    [error |-> cls, db |-> db, rows |-> <<>>, description |-> <<>>,
     lastrowid |-> 0, dml |-> FALSE]

Done(db, rows, description, lastrowid, dml) ==
    [error |-> NoError, db |-> db, rows |-> rows, description |-> description,
     lastrowid |-> lastrowid, dml |-> dml]

\* The text does not compile: a syntax error, an unknown table or column.
\* sqlite3 raises OperationalError for each.
Malformed(db, q) ==
    \/ q.verb \in {"insert", "update"} /\ q.columns = <<>>
    \/ q.table # TableName
    \/ q.verb \in {"insert", "update"} /\ ~(Range(q.columns) \subseteq KnownColumns(db))
    \/ q.verb = "select" /\ q.columns # Star
          /\ ~(Range(q.columns) \subseteq KnownColumns(db))
    \/ q.cond # NoCondition /\ q.cond \notin KnownColumns(db)
    \/ q.verb = "alter" /\ q.columns[1] \in KnownColumns(db)

\* One execution of statement q with params on database db, when the
\* database is not locked.
Engine(db, q, params) ==
    IF Malformed(db, q) THEN Fail(db, OperationalError)
    ELSE IF Len(params) # Placeholders(q) THEN Fail(db, ProgrammingError)
    ELSE CASE q.verb = "insert" ->
                LET row == NewRow(db, q, params)
                IN  IF row.name = NULL THEN Fail(db, IntegrityError)
                    ELSE Done([db EXCEPT !.rows = @ \cup {row}], <<>>, <<>>,
                              row.rowid, TRUE)
           [] q.verb = "update" ->
                LET hit == Selected(db, q, params)
                    new == {Updated(q, params, r) : r \in hit}
                IN  IF \E r \in new : r.name = NULL THEN Fail(db, IntegrityError)
                    ELSE Done([db EXCEPT !.rows = (@ \ hit) \cup new], <<>>, <<>>,
                              0, TRUE)
           [] q.verb = "delete" ->
                Done([db EXCEPT !.rows = @ \ Selected(db, q, params)], <<>>, <<>>,
                     0, TRUE)
           [] q.verb = "select" ->
                LET hit == InRowidOrder(Selected(db, q, params))
                IN  Done(db, [k \in DOMAIN hit |-> Tuple(db, q, hit[k])],
                         OutputColumns(db, q), 0, FALSE)
           [] OTHER ->
                Done([db EXCEPT !.added = TRUE], <<>>, <<>>, 0, FALSE)

\* ------------------------------------------------------------ cursor_execute
\* except sqlite3.OperationalError: the only class the loop catches.
CatchesEverything(cls) == TRUE

Catches(cls) == cls = OperationalError

\* if i == DB_RETRIES: raise
RetriesExhaustedLate(n) == n > DB_RETRIES

RetriesExhausted(n) == n = DB_RETRIES

\* "%d retries remaining": DB_RETRIES - i
RemainingBeforeIncrement(n) == DB_RETRIES - n + 1

Remaining(n) == DB_RETRIES - n

\* The two logger.error calls of one caught failure: the message with the
\* remaining-retry count, then the exception.
LogEntries(n) ==
    << [kind |-> "retries", n |-> Remaining(n)], [kind |-> "exception", n |-> n] >>

Step(next, n, entries, sleep) ==
    [next |-> next, i |-> n, log |-> entries, sleep |-> sleep]

\* One turn of the while loop after cursor.execute ended with class cls
\* (NoError: it returned), i being n before it.
CursorExecuteStepNoReturn(n, cls) ==
    IF cls = NoError THEN Step("retry", n, <<>>, FALSE)
    ELSE IF ~Catches(cls) THEN Step("raise", n, <<>>, FALSE)
    ELSE IF RetriesExhausted(n + 1) THEN Step("raise", n + 1, <<>>, FALSE)
    ELSE Step("retry", n + 1, LogEntries(n + 1), TRUE)

CursorExecuteStepSleepFirst(n, cls) ==
    IF cls = NoError THEN Step("return", n, <<>>, FALSE)
    ELSE IF ~Catches(cls) THEN Step("raise", n, <<>>, FALSE)
    ELSE IF RetriesExhausted(n + 1) THEN Step("raise", n + 1, <<>>, TRUE)
    ELSE Step("retry", n + 1, LogEntries(n + 1), TRUE)

CursorExecuteStep(n, cls) ==
    IF cls = NoError THEN Step("return", n, <<>>, FALSE)
    ELSE IF ~Catches(cls) THEN Step("raise", n, <<>>, FALSE)
    ELSE IF RetriesExhausted(n + 1) THEN Step("raise", n + 1, <<>>, FALSE)
    ELSE Step("retry", n + 1, LogEntries(n + 1), TRUE)

\* Which helpers run their statement through cursor_execute: all but
\* add_field, which calls cursor.execute itself.
EveryHelperRetries(op) == TRUE

UsesRetry(op) == op # "add_field"

\* db_select, db_query: each fetched row as a mapping from column name to
\* value, filled in column order (a repeated name keeps its last value).
RowData(column_names, row) ==
    [c \in Range(column_names) |->
        row[Max({k \in DOMAIN column_names : column_names[k] = c})]]

Results(column_names, rows) ==
    [k \in DOMAIN rows |-> RowData(column_names, rows[k])]

\* ----------------------------------------------------------------- state
VARIABLES
    db,         \* the committed database
    work,       \* the database as the open connection sees it
    inTxn,      \* the connection has written: its commit has work to do
    conn,       \* the call's connection: opened (count), state, committed
    call,       \* the helper call in progress, with its statement
    pc,         \* where the call is
    i,          \* cursor_execute's i
    ce,         \* cursor_execute: none, running, returned or raised
    attempts,   \* the calls of cursor.execute made by this helper call
    events,     \* the executes and sleeps of this call, in order
    log,        \* logger.error's entries of this call
    exc,        \* the exception propagating, and the attempt that raised it
    cursor,     \* the cursor after a successful execute
    local,      \* the helper's locals read from the cursor
    outcome,    \* how the call ended, and what it returned
    pre,        \* the committed database when the call began
    lastInsert  \* the call before this db_select, if a successful db_insert

vars == <<db, work, inTxn, conn, call, pc, i, ce, attempts, events, log, exc,
          cursor, local, outcome, pre, lastInsert>>

EmptyDb == [rows |-> {}, added |-> FALSE]
NoCall ==
    [op |-> "none", table |-> "", fields |-> <<>>, cond |-> <<>>,
     query |-> Statement("none", "", <<>>, NoCondition), params |-> <<>>]
NoConn == [opened |-> 0, state |-> "none", committed |-> FALSE]
NoExc == [cls |-> NoError, attempt |-> 0]
NoCursor == [rows |-> <<>>, description |-> <<>>, lastrowid |-> 0]
NoLocal == [inserted_id |-> 0, rows |-> <<>>, column_names |-> <<>>]
NoOutcome == [how |-> "none", id |-> 0, rows |-> <<>>]

Init ==
    /\ db = EmptyDb
    /\ work = EmptyDb
    /\ inTxn = FALSE
    /\ conn = NoConn
    /\ call = NoCall
    /\ pc = "idle"
    /\ i = 0
    /\ ce = "none"
    /\ attempts = <<>>
    /\ events = <<>>
    /\ log = <<>>
    /\ exc = NoExc
    /\ cursor = NoCursor
    /\ local = NoLocal
    /\ outcome = NoOutcome
    /\ pre = EmptyDb
    /\ lastInsert = <<>>

\* ------------------------------------------------------------ the helpers
\* A helper is called: it builds its statement and parameters.
Begin(op, table, fields, cond, query, params) ==
    /\ pc = "idle"
    /\ call' = [op |-> op, table |-> table, fields |-> fields, cond |-> cond,
                query |-> query, params |-> params]
    /\ pre' = db
    /\ pc' = "enter"
    /\ lastInsert' = IF op = "db_select" THEN lastInsert ELSE <<>>
    /\ UNCHANGED <<db, work, inTxn, conn, i, ce, attempts, events, log, exc,
                   cursor, local, outcome>>

CallInsert(tables, fieldMaps) ==
    /\ NextRowid(db) <= MaxRowid
    /\ \E t \in tables, f \in fieldMaps :
          Begin("db_insert", t, f, <<>>, InsertQuery(t, f), InsertParams(f))

CallUpdate(tables, fieldMaps, conditions) ==
    \E t \in tables, f \in fieldMaps, row \in conditions :
        Begin("db_update", t, f, row, UpdateQuery(t, f, row), UpdateParams(f, row))

CallDelete(tables, conditions) ==
    \E t \in tables, c \in conditions :
        Begin("db_delete", t, <<>>, c, DeleteQuery(t, c[1]), DeleteParams(c[2]))

CallSelect(tables, columnLists, conditions) ==
    \E t \in tables, f \in columnLists, c \in conditions \cup {<<>>} :
        Begin("db_select", t, f, c, SelectQuery(t, f, c), SelectParams(c))

CallQuery(raws) ==
    \E r \in raws : Begin("db_query", r.query.table, <<>>, <<>>, r.query, r.params)

CallAddField(tables) ==
    \E t \in tables :
        Begin("add_field", t, <<>>, <<>>, AlterQuery(t, AddedColumn), <<>>)

\* db_cursor.__enter__: connect, and hand out a cursor.
Enter ==
    /\ pc = "enter"
    /\ conn' = [opened |-> conn.opened + 1, state |-> "open", committed |-> FALSE]
    /\ work' = db
    /\ inTxn' = FALSE
    /\ pc' = "execute"
    /\ UNCHANGED <<db, call, i, ce, attempts, events, log, exc, cursor, local,
                   outcome, pre, lastInsert>>

Locked(as) == {k \in DOMAIN as : as[k].transient}

Fetched(res) ==
    [rows |-> res.rows, description |-> res.description, lastrowid |-> res.lastrowid]

Attempted(x) ==
    [query |-> call.query, params |-> call.params, error |-> x.error,
     transient |-> x.transient, result |-> Fetched(x.res)]

\* What one cursor.execute can do: fail on a locked database (while the
\* engine still injects lock failures), or run the statement.
Executions(busyLimit) ==
    {[error |-> OperationalError, transient |-> TRUE, res |-> Fail(work, OperationalError)] :
        x \in IF Cardinality(Locked(attempts)) < busyLimit THEN {0} ELSE {}}
    \cup {[error |-> Engine(work, call.query, call.params).error, transient |-> FALSE,
           res |-> Engine(work, call.query, call.params)]}

Applied(x) ==
    /\ work' = x.res.db
    /\ inTxn' = (inTxn \/ x.res.dml)
    /\ cursor' = IF x.error = NoError THEN Fetched(x.res) ELSE cursor
    /\ attempts' = Append(attempts, Attempted(x))

\* cursor_execute: one attempt, and what the loop does with its outcome.
Attempt(busyLimit) ==
    /\ pc = "execute"
    /\ UsesRetry(call.op)
    /\ \E x \in Executions(busyLimit) :
          LET st == CursorExecuteStep(i, x.error)
          IN  /\ Applied(x)
              /\ events' = Append(events, [kind |-> "execute", t |-> 0])
              /\ i' = st.i
              /\ log' = log \o st.log
              /\ ce' = CASE st.next = "return" -> "returned"
                         [] st.next = "raise" -> "raised"
                         [] OTHER -> "running"
              /\ exc' = IF st.next = "raise"
                        THEN [cls |-> x.error, attempt |-> Len(attempts) + 1]
                        ELSE exc
              /\ pc' = IF st.sleep THEN "sleep"
                       ELSE CASE st.next = "return" -> "after"
                              [] st.next = "raise" -> "exit"
                              [] OTHER -> "execute"
    /\ UNCHANGED <<db, conn, call, local, outcome, pre, lastInsert>>

\* time.sleep(1)
Sleep ==
    /\ pc = "sleep"
    /\ events' = Append(events, [kind |-> "sleep", t |-> SleepTime])
    /\ pc' = CASE ce = "returned" -> "after"
               [] ce = "raised" -> "exit"
               [] OTHER -> "execute"
    /\ UNCHANGED <<db, work, inTxn, conn, call, i, ce, attempts, log, exc,
                   cursor, local, outcome, pre, lastInsert>>

\* add_field: cursor.execute(query), once, outside cursor_execute.
DirectExecute(busyLimit) ==
    /\ pc = "execute"
    /\ ~UsesRetry(call.op)
    /\ \E x \in Executions(busyLimit) :
          /\ Applied(x)
          /\ events' = Append(events, [kind |-> "execute", t |-> 0])
          /\ exc' = IF x.error # NoError
                    THEN [cls |-> x.error, attempt |-> Len(attempts) + 1]
                    ELSE exc
          /\ pc' = IF x.error # NoError THEN "exit" ELSE "after"
    /\ UNCHANGED <<db, conn, call, i, ce, log, local, outcome, pre, lastInsert>>

\* The rest of the with block: db_insert reads cursor.lastrowid, db_select
\* and db_query fetch the rows and the column names.
AfterExecute ==
    /\ pc = "after"
    /\ local' = CASE call.op = "db_insert" ->
                       [NoLocal EXCEPT !.inserted_id = cursor.lastrowid]
                  [] call.op \in {"db_select", "db_query"} ->
                       [NoLocal EXCEPT !.rows = cursor.rows,
                                       !.column_names = cursor.description]
                  [] OTHER -> NoLocal
    /\ pc' = "exit"
    /\ UNCHANGED <<db, work, inTxn, conn, call, i, ce, attempts, events, log,
                   exc, cursor, outcome, pre, lastInsert>>

Returned ==
    [how |-> "returned", id |-> local.inserted_id,
     rows |-> Results(local.column_names, local.rows)]

Raised == [how |-> "raised", id |-> 0, rows |-> <<>>]

\* db_cursor.__exit__, then the helper's return or the exception leaving
\* it.  commit can fail only when the connection has written: it then
\* raises, and close is not reached.
Exit ==
    /\ pc = "exit"
    /\ \/ /\ db' = work
          /\ conn' = [conn EXCEPT !.committed = TRUE, !.state = "closed"]
          /\ exc' = exc
          /\ outcome' = IF exc.cls = NoError THEN Returned ELSE Raised
       \/ /\ inTxn
          /\ db' = db
          /\ conn' = conn
          /\ exc' = [cls |-> OperationalError, attempt |-> 0]
          /\ outcome' = Raised
    /\ pc' = "done"
    /\ UNCHANGED <<work, inTxn, call, i, ce, attempts, events, log, cursor,
                   local, pre, lastInsert>>

\* The caller goes on; nothing of the call is kept but the database.
Return ==
    /\ pc = "done"
    /\ lastInsert' = IF call.op = "db_insert" /\ outcome.how = "returned"
                     THEN <<[fields |-> call.fields, id |-> outcome.id]>>
                     ELSE <<>>
    /\ pc' = "idle"
    /\ work' = db
    /\ inTxn' = FALSE
    /\ conn' = NoConn
    /\ call' = NoCall
    /\ i' = 0
    /\ ce' = "none"
    /\ attempts' = <<>>
    /\ events' = <<>>
    /\ log' = <<>>
    /\ exc' = NoExc
    /\ cursor' = NoCursor
    /\ local' = NoLocal
    /\ outcome' = NoOutcome
    /\ pre' = db
    /\ UNCHANGED db

\* ------------------------------------------------------------- the inputs
FieldColumns == Range(Schema)

\* Every dict over the declared columns, in either insertion order.
FieldMaps ==
    {<<>>}
    \cup {<<<<c, v>>>> : c \in FieldColumns, v \in Values}
    \cup {<<<<c, v>>, <<d, w>>>> :
            <<c, v, d, w>> \in {x \in FieldColumns \X Values \X FieldColumns \X Values :
                                   x[1] # x[3]}}

Conditions == {<<c, v>> : c \in RowColumns, v \in Values}

ColumnLists == {<<>>, <<"name">>, <<"runner", "name">>, <<"runner", "runner">>}

\* The inputs that decide how a statement ends: it runs, it does not
\* compile, it breaks NOT NULL, its parameters do not fit, its table is
\* missing.
SomeTables == {TableName, "missing"}
SomeFieldMaps == {<<>>, <<<<"name", 1>>>>, <<<<"runner", 1>>>>, <<<<"name", NULL>>>>}
SomeConditions == {<<"name", 1>>}
SomeColumnLists == {<<>>, <<"bogus">>}
RawQueries ==
    {[query |-> Statement("select", TableName, Star, NoCondition), params |-> <<>>],
     [query |-> Statement("select", TableName, Star, NoCondition), params |-> <<1>>],
     [query |-> Statement("select", TableName, <<"name">>, "runner"), params |-> <<1>>]}

\* ------------------------------------------------------ the specifications
\* Spec: every helper, on the inputs that decide how a statement ends,
\* with a database that can be locked at every attempt.
Next ==
    \/ CallInsert(SomeTables, SomeFieldMaps)
    \/ CallUpdate(SomeTables, SomeFieldMaps, SomeConditions)
    \/ CallDelete(SomeTables, SomeConditions)
    \/ CallSelect(SomeTables, SomeColumnLists, SomeConditions)
    \/ CallQuery(RawQueries)
    \/ CallAddField(SomeTables)
    \/ Enter
    \/ Attempt(DB_RETRIES)
    \/ Sleep
    \/ DirectExecute(DB_RETRIES)
    \/ AfterExecute
    \/ Exit
    \/ Return

Spec == Init /\ [][Next]_vars

\* SpecCrud: db_insert, db_update, db_delete and db_select on every field
\* dict and condition over the table, with at most MaxBusy lock failures
\* in a call.
NextCrud ==
    \/ CallInsert({TableName}, FieldMaps)
    \/ CallUpdate({TableName}, FieldMaps, Conditions)
    \/ CallDelete({TableName}, Conditions)
    \/ CallSelect({TableName}, ColumnLists, Conditions)
    \/ Enter
    \/ Attempt(MaxBusy)
    \/ Sleep
    \/ AfterExecute
    \/ Exit
    \/ Return

SpecCrud == Init /\ [][NextCrud]_vars

\* ---------------------------------------------------------------- claims
Transient(k) == attempts[k].transient
AllTransient == \A k \in DOMAIN attempts : Transient(k)
Executes == {k \in DOMAIN events : events[k].kind = "execute"}
Sleeps == {k \in DOMAIN events : events[k].kind = "sleep"}
Failed == {k \in DOMAIN attempts : attempts[k].error = OperationalError}
IsRetriesEntry(e) == e.kind = "retries"
RetryLog == SelectSeq(log, IsRetriesEntry)
Finished(op, how) == pc = "done" /\ call.op = op /\ outcome.how = how

\* C1: when every attempt of cursor_execute fails with the transient
\* OperationalError, cursor.execute is called exactly DB_RETRIES (5) times
\* and the error of the 5th attempt is raised: there is no 6th attempt, and
\* nothing is raised before the 5th.
C1_PersistentFailureRaisesAfterFive ==
    UsesRetry(call.op) =>
        /\ Len(attempts) <= DB_RETRIES
        /\ Cardinality(Executes) = Len(attempts)
        /\ (AllTransient /\ ce = "raised") => Len(attempts) = DB_RETRIES
        /\ (AllTransient /\ Len(attempts) = DB_RETRIES) =>
              /\ ce = "raised"
              /\ pc \in {"exit", "done"}
              /\ exc = [cls |-> OperationalError, attempt |-> DB_RETRIES]
              /\ pc = "done" => outcome.how = "raised"

C1_Witness ==
    /\ Finished("db_select", "raised")
    /\ Len(attempts) = 5
    /\ AllTransient

\* C2: if the first k attempts (k in 0..4) fail with the transient error
\* and attempt k+1 succeeds, cursor_execute returns the result of attempt
\* k+1 without raising, after exactly k+1 calls of cursor.execute, all with
\* the same query and params, and makes no attempt after it.
C2_SuccessAfterTransientFailures ==
    \A n \in DOMAIN attempts :
        ( /\ UsesRetry(call.op)
          /\ attempts[n].error = NoError
          /\ \A k \in 1..(n - 1) : Transient(k) ) =>
            /\ n = Len(attempts)
            /\ n <= DB_RETRIES
            /\ Cardinality(Executes) = n
            /\ ce = "returned"
            /\ pc \in {"after", "exit", "done"}
            /\ pc \in {"after", "exit"} => exc = NoExc
            /\ cursor = attempts[n].result
            /\ \A k \in 1..n : /\ attempts[k].query = call.query
                               /\ attempts[k].params = call.params

C2_Witness ==
    /\ Finished("db_insert", "returned")
    /\ Len(attempts) = 5
    /\ attempts[5].error = NoError
    /\ \A k \in 1..4 : Transient(k)

\* C3 as stated: a failure of an attempt that is not a transient error is
\* the last attempt; it is raised, with no sleep and no attempt after it.
C3_NonTransientFailurePropagates ==
    \A n \in DOMAIN attempts :
        (UsesRetry(call.op) /\ attempts[n].error # NoError /\ ~Transient(n)) =>
            /\ n = Len(attempts)
            /\ ce = "raised"
            /\ pc \in {"exit", "done"}
            /\ events[Len(events)].kind = "execute"

\* C3 as amended: a failure of an attempt that is not an
\* sqlite3.OperationalError (an integrity violation, parameters that do
\* not fit) is the last attempt, whatever number of transient failures
\* preceded it: it is raised from that attempt, with no sleep and no
\* attempt after it.
C3_NonOperationalFailurePropagates ==
    \A n \in DOMAIN attempts :
        (UsesRetry(call.op) /\ attempts[n].error \notin {NoError, OperationalError}) =>
            /\ n = Len(attempts)
            /\ ce = "raised"
            /\ pc \in {"exit", "done"}
            /\ events[Len(events)].kind = "execute"
            /\ Cardinality(Sleeps) = n - 1
            /\ pc = "exit" => exc = [cls |-> attempts[n].error, attempt |-> n]
            /\ pc = "done" => outcome.how = "raised"

C3_Witness ==
    /\ Finished("db_insert", "raised")
    /\ Len(attempts) = 5
    /\ attempts[5].error = IntegrityError
    /\ \A k \in 1..4 : Transient(k)

\* C4 as stated: when a helper call ends, on any path, it has opened one
\* connection, and that connection is committed and closed.
C4_ConnectionCommittedAndClosed ==
    pc = "done" =>
        /\ conn.opened = 1
        /\ conn.committed
        /\ conn.state = "closed"

\* C5 as stated: every attempt that failed with an OperationalError has
\* its log entry, the j-th carrying the count 5 - j.
C5_EveryFailureLogged ==
    UsesRetry(call.op) =>
        /\ Len(RetryLog) = Cardinality(Failed)
        /\ \A j \in DOMAIN RetryLog : RetryLog[j].n = 5 - j

\* C5 as amended: every attempt that failed with an OperationalError and
\* is followed by a retry has its log entry, the j-th carrying the count
\* 5 - j; the 5th failure is re-raised without one, so n failed attempts
\* leave min(n, 4) entries, with the counts 4, 3, ... in that order.
C5_RetriedFailuresLogged ==
    UsesRetry(call.op) =>
        /\ Len(RetryLog) = Min({Cardinality(Failed), 4})
        /\ \A j \in DOMAIN RetryLog : RetryLog[j].n = 5 - j
        /\ Len(log) = 2 * Len(RetryLog)

C5_Witness ==
    /\ Finished("db_update", "raised")
    /\ Cardinality(Failed) = 5
    /\ Len(RetryLog) = 4

\* C6: a db_select that directly follows a successful db_insert returning
\* r, with a condition that only the new row satisfies, returns one
\* mapping, which gives every inserted column it holds the inserted value;
\* it holds every column of the table when no columns are asked for.
C6_InsertThenSelect ==
    ( /\ Finished("db_select", "returned")
      /\ lastInsert # <<>>
      /\ call.cond # <<>>
      /\ {r \in pre.rows : Matches(r, call.cond[1], call.cond[2])}
            = {r \in pre.rows : r.rowid = lastInsert[1].id}
      /\ \E r \in pre.rows : r.rowid = lastInsert[1].id ) =>
        /\ Len(outcome.rows) = 1
        /\ call.fields = <<>> => DOMAIN outcome.rows[1] = Range(Schema)
        /\ \A k \in DOMAIN lastInsert[1].fields :
              LET c == lastInsert[1].fields[k][1]
                  v == lastInsert[1].fields[k][2]
              IN  c \in DOMAIN outcome.rows[1] => outcome.rows[1][c] = v

C6_Witness ==
    /\ Finished("db_select", "returned")
    /\ lastInsert # <<>>
    /\ Len(lastInsert[1].fields) = 2
    /\ call.fields = <<>>
    /\ call.cond = <<"rowid", lastInsert[1].id>>
    /\ Len(outcome.rows) = 1
    /\ Cardinality(pre.rows) = 2

\* C7: after a successful db_update(table, updated_fields, (col, val)) the
\* rows are the same rows; a row that col=val did not select is unchanged,
\* and a row it selected holds the new value in every column of
\* updated_fields and its old value in every other column.
C7_UpdateChangesOnlyTarget ==
    Finished("db_update", "returned") =>
        LET col == call.cond[1]
            val == call.cond[2]
            named == Range(Keys(call.fields))
            new(c) == call.fields[CHOOSE k \in DOMAIN call.fields :
                                      call.fields[k][1] = c][2]
        IN  /\ Cardinality(db.rows) = Cardinality(pre.rows)
            /\ {r.rowid : r \in db.rows} = {r.rowid : r \in pre.rows}
            /\ \A r \in pre.rows : \E r2 \in db.rows :
                  /\ r2.rowid = r.rowid
                  /\ ~Matches(r, col, val) => r2 = r
                  /\ Matches(r, col, val) =>
                        \A c \in Range(Schema) :
                            r2[c] = IF c \in named THEN new(c) ELSE r[c]

C7_Witness ==
    /\ Finished("db_update", "returned")
    /\ Len(call.fields) = 2
    /\ \E r \in pre.rows : Matches(r, call.cond[1], call.cond[2]) /\ r \notin db.rows
    /\ \E r \in pre.rows : ~Matches(r, call.cond[1], call.cond[2])

\* C8: after a successful db_delete(table, field, value) the table holds
\* exactly the rows it held before that field=value did not select, each
\* unchanged.
C8_DeleteRemovesExactlyMatching ==
    Finished("db_delete", "returned") =>
        db.rows = {r \in pre.rows : ~Matches(r, call.cond[1], call.cond[2])}

C8_Witness ==
    /\ Finished("db_delete", "returned")
    /\ db.rows # {}
    /\ db.rows # pre.rows

\* C9: the executes and sleeps of a call alternate, beginning with an
\* execute; each sleep lasts 1; a sleep is pending only after a failed
\* attempt that will be retried, and the call ends on an execute: n
\* attempts, n - 1 sleeps (at most 4).
C9_OneSleepBetweenAttempts ==
    /\ \A j \in DOMAIN events :
          /\ events[j].kind = IF j % 2 = 1 THEN "execute" ELSE "sleep"
          /\ events[j].kind = "sleep" => events[j].t = 1
    /\ Cardinality(Executes) = Len(attempts)
    /\ Cardinality(Sleeps) <= 4
    /\ pc = "sleep" =>
          /\ ce = "running"
          /\ events[Len(events)].kind = "execute"
          /\ attempts[Len(attempts)].error = OperationalError
    /\ pc = "execute" => Cardinality(Sleeps) = Len(attempts)
    /\ pc \in {"after", "exit", "done"} => Cardinality(Sleeps) = Len(attempts) - 1

C9_Witness ==
    /\ Finished("db_delete", "raised")
    /\ Len(attempts) = 5
    /\ Cardinality(Sleeps) = 4

\* C10: add_field calls cursor.execute once, outside cursor_execute: a
\* transient failure of that attempt is raised with no retry, no sleep and
\* no log entry, while every other helper retries such a failure until the
\* 5th attempt.
C10_AddFieldDoesNotRetry ==
    /\ call.op = "add_field" =>
          /\ Len(attempts) <= 1
          /\ log = <<>>
          /\ Sleeps = {}
          /\ pc # "sleep"
          /\ (Len(attempts) = 1 /\ attempts[1].error # NoError) =>
                /\ pc \in {"exit", "done"}
                /\ exc = [cls |-> attempts[1].error, attempt |-> 1]
                /\ pc = "done" => outcome.how = "raised"
    /\ (call.op \notin {"none", "add_field"} /\ attempts # <<>> /\ AllTransient) =>
          /\ Len(attempts) < 5 => pc \in {"sleep", "execute"}
          /\ Len(attempts) = 5 => pc \in {"exit", "done"}

C10_Witness ==
    /\ Finished("add_field", "raised")
    /\ Len(attempts) = 1
    /\ Transient(1)
    /\ log = <<>>

====
